---- MODULE Spec2Model ----
(***************************************************************************)
(* Model of the polysat constraint manager                                 *)
(* (src/src/math/polysat/constraint_manager.cpp).                          *)
(*                                                                         *)
(* Constraints and clauses are heap objects named by their index in        *)
(* `cons` and `clauses`; a pointer is such an index, NULL is 0.  A         *)
(* literal is 2*var + sign as sat::literal indexes it, sign 1 being the    *)
(* negated literal.  Positions of a clause are 1-based here: cl[0] of the  *)
(* source is cl[1] of the model.                                           *)
(***************************************************************************)
EXTENDS Integers, Sequences, FiniteSets, TLC

\* ---------------------------------------------------------------- bounds
\* boolean variables the solver may allocate
MaxBVars == 2
\* highest decision level of an assignment
MaxLevel == 1
\* longest clause handed to watch in SpecWatch
MaxClauseLen == 3
\* widest bit-width of the pdd manager
MaxWidth == 4
\* operand pairs quot_rem may memoize
MaxPairs == 2
\* constraints the manager may allocate in Spec and SpecDedup
MaxCons == 3
\* clauses the solver may hand to store in Spec
MaxStored == 1
\* longest clause handed to store in Spec
MaxStoreLen == 2

\* ------------------------------------------------------------- constants
NULL == 0
null_bool_var == -1
null_literal == -1
\* UINT_MAX of the platform is 2^32-1; the model checker's integers end at
\* 2^31-1.  get_watch_level only compares the value with assignment levels
\* (all <= MaxLevel) and subtracts one, so the order is what is modelled.
UINT_MAX == 2147483647

BVars == 0 .. (MaxBVars - 1)
Literals == 0 .. (2 * MaxBVars - 1)
Levels == 0 .. MaxLevel
NoConflict == <<"none", 0>>

VARIABLES
    cons,             \* constraint heap: seq of [key, bvar, ext, live]
    m_constraints,    \* constraint storage: seq of constraint ids
    m_dedup,          \* m_dedup.constraints: set of constraint ids
    m_bv2constraint,  \* dense bridge: index bv+1 -> constraint id or NULL
    num_bvars,        \* s.m_bvars: number of allocated boolean variables
    clauses,          \* clause heap: seq of [lits, live]
    m_clauses,        \* level buckets: seq of seq of clause ids
    m_watch,          \* s.m_bvars.watch: literal -> seq of clause ids
    m_value,          \* s.m_bvars value of each variable
    m_level,          \* s.m_bvars level of each variable
    m_reason,         \* s.m_bvars reason clause of each variable
    m_search,         \* s.m_search: the boolean assignments of the trail
    cur_level,        \* s.m_level
    conflict,         \* the solver's conflict
    eval_false,       \* literals whose constraint is_currently_false
    quot_rem_expr,    \* m_dedup.quot_rem_expr: set of <<a, b, q, r>>
    op_constraint_expr, \* m_dedup.op_constraint_expr: set of <<op, p, q, r>>
    events,           \* history: what the last release_level did, in order
    num_pvars,        \* number of polynomial variables the solver allocated
    width,            \* bit-width K of the pdd manager
    added,            \* clauses handed to s.add_clause, in order
    assert_failed,    \* a SASSERT of the manager was violated
    first_ret,        \* history: <<key, constraint, variable>> of each key's first dedup
    call,             \* the last operation, <<name, arguments...>>
    ret               \* what the last operation returned

vars == <<cons, m_constraints, m_dedup, m_bv2constraint, num_bvars, clauses,
          m_clauses, m_watch, m_value, m_level, m_reason, m_search, cur_level,
          conflict, eval_false, quot_rem_expr, op_constraint_expr, events,
          num_pvars, width, added, assert_failed, first_ret, call, ret>>

consVars == <<cons, m_constraints, m_dedup, m_bv2constraint, num_bvars>>
clauseVars == <<clauses, m_clauses>>
boolVars == <<m_watch, m_value, m_level, m_reason, m_search, conflict>>
termVars == <<quot_rem_expr, op_constraint_expr, events, num_pvars, added>>

\* ------------------------------------------------------- sat::literal
lit_var(lit) == lit \div 2
lit_sign(lit) == lit % 2
neg_lit(lit) == IF lit % 2 = 0 THEN lit + 1 ELSE lit - 1
mk_lit(v, sign) == 2 * v + (IF sign THEN 1 ELSE 0)

neg_lbool(x) == IF x = "l_true" THEN "l_false" ELSE IF x = "l_false" THEN "l_true" ELSE "l_undef"

\* The boolean state the watch engine reads and writes, as one record.
BoolState == [value |-> m_value, level |-> m_level, reason |-> m_reason,
              search |-> m_search, conflict |-> conflict, watch |-> m_watch]

bvalue(B, lit) == IF lit_sign(lit) = 1 THEN neg_lbool(B.value[lit_var(lit)]) ELSE B.value[lit_var(lit)]
is_true(B, lit) == bvalue(B, lit) = "l_true"
is_false(B, lit) == bvalue(B, lit) = "l_false"
is_assigned(B, lit) == bvalue(B, lit) # "l_undef"
blevel(B, lit) == B.level[lit_var(lit)]

\* solver::assign_propagate: lit becomes true at the current level, with the
\* clause as its reason, and is pushed on the search trail.
assign_propagate(B, lit, cid, lvl) ==
    [B EXCEPT !.value[lit_var(lit)] = IF lit_sign(lit) = 1 THEN "l_false" ELSE "l_true",
              !.level[lit_var(lit)] = lvl,
              !.reason[lit_var(lit)] = cid,
              !.search = Append(@, lit)]

\* solver::assign_eval: lit becomes true as a theory consequence (no reason clause).
assign_eval(B, lit, lvl) ==
    [B EXCEPT !.value[lit_var(lit)] = IF lit_sign(lit) = 1 THEN "l_false" ELSE "l_true",
              !.level[lit_var(lit)] = lvl,
              !.reason[lit_var(lit)] = NULL,
              !.search = Append(@, lit)]

\* solver::assign_decide: lit becomes true as a decision.
assign_decide(B, lit, lvl) ==
    [B EXCEPT !.value[lit_var(lit)] = IF lit_sign(lit) = 1 THEN "l_false" ELSE "l_true",
              !.level[lit_var(lit)] = lvl,
              !.reason[lit_var(lit)] = NULL,
              !.search = Append(@, lit)]

set_conflict_clause(B, cid) == [B EXCEPT !.conflict = <<"clause", cid>>]
set_conflict_constraint(B, lit) == [B EXCEPT !.conflict = <<"constraint", lit>>]

\* ---------------------------------------------------- normalize_watch
get_watch_level(B, lit) ==
    IF is_false(B, lit) THEN blevel(B, lit)
    ELSE IF is_true(B, lit) THEN UINT_MAX
    ELSE UINT_MAX - 1

\* normalize_loop without the second rotation: a literal whose level lies
\* between the two front levels stays where it is.
RECURSIVE normalize_loop_no_second(_, _, _, _, _)
normalize_loop_no_second(B, cl, lvl0, lvl1, i) ==
    IF i > Len(cl) THEN cl
    ELSE LET lit == cl[i]
             lvl == get_watch_level(B, lit)
         IN  IF lvl > lvl0
             THEN normalize_loop_no_second(B, [cl EXCEPT ![i] = cl[2], ![2] = cl[1], ![1] = lit],
                                           lvl, lvl0, i + 1)
             ELSE normalize_loop_no_second(B, cl, lvl0, lvl1, i + 1)

\* normalize_loop whose first rotation does not move the old second literal
\* to position i: that literal is overwritten.
RECURSIVE normalize_loop_lossy(_, _, _, _, _)
normalize_loop_lossy(B, cl, lvl0, lvl1, i) ==
    IF i > Len(cl) THEN cl
    ELSE LET lit == cl[i]
             lvl == get_watch_level(B, lit)
         IN  IF lvl > lvl0
             THEN normalize_loop_lossy(B, [cl EXCEPT ![2] = cl[1], ![1] = lit], lvl, lvl0, i + 1)
             ELSE IF lvl > lvl1
             THEN normalize_loop_lossy(B, [cl EXCEPT ![i] = cl[2], ![2] = lit], lvl0, lvl, i + 1)
             ELSE normalize_loop_lossy(B, cl, lvl0, lvl1, i + 1)

RECURSIVE normalize_loop(_, _, _, _, _)
normalize_loop(B, cl, lvl0, lvl1, i) ==
    IF i > Len(cl) THEN cl
    ELSE LET lit == cl[i]
             lvl == get_watch_level(B, lit)
         IN  IF lvl > lvl0
             THEN normalize_loop(B, [cl EXCEPT ![i] = cl[2], ![2] = cl[1], ![1] = lit],
                                 lvl, lvl0, i + 1)
             ELSE IF lvl > lvl1
             THEN normalize_loop(B, [cl EXCEPT ![i] = cl[2], ![2] = lit], lvl0, lvl, i + 1)
             ELSE normalize_loop(B, cl, lvl0, lvl1, i + 1)

normalize_watch(B, cl) ==
    LET l0 == get_watch_level(B, cl[1])
        l1 == get_watch_level(B, cl[2])
    IN  IF l0 < l1
        THEN normalize_loop(B, [cl EXCEPT ![1] = cl[2], ![2] = cl[1]], l1, l0, 3)
        ELSE normalize_loop(B, cl, l0, l1, 3)

\* ---------------------------------------------------------------- watch
\* First loop of the eager branch: the one unassigned literal of a clause
\* with no true literal and no second unassigned literal, or null_literal.
RECURSIVE find_undef_lit(_, _, _, _)
find_undef_lit(B, cl, i, undef_lit) ==
    IF i > Len(cl) THEN undef_lit
    ELSE IF is_false(B, cl[i]) THEN find_undef_lit(B, cl, i + 1, undef_lit)
    ELSE IF is_true(B, cl[i]) THEN null_literal
    ELSE IF undef_lit = null_literal THEN find_undef_lit(B, cl, i + 1, cl[i])
    ELSE null_literal

\* eval_loop that skips line 181: a literal the theory evaluates as false
\* is left unassigned.
RECURSIVE eval_loop_no_assign(_, _, _, _, _)
eval_loop_no_assign(B, cl, i, ef, lvl) ==
    IF i > Len(cl) THEN [B |-> B, returned |-> FALSE]
    ELSE IF is_false(B, cl[i]) THEN eval_loop_no_assign(B, cl, i + 1, ef, lvl)
    ELSE IF cl[i] \in ef /\ is_true(B, cl[i])
         THEN [B |-> set_conflict_constraint(B, cl[i]), returned |-> TRUE]
    ELSE eval_loop_no_assign(B, cl, i + 1, ef, lvl)

\* Second loop of the eager branch; returns the boolean state and whether
\* watch returned from inside the loop.
RECURSIVE eval_loop(_, _, _, _, _)
eval_loop(B, cl, i, ef, lvl) ==
    IF i > Len(cl) THEN [B |-> B, returned |-> FALSE]
    ELSE IF is_false(B, cl[i]) THEN eval_loop(B, cl, i + 1, ef, lvl)
    ELSE IF cl[i] \in ef
         THEN IF is_true(B, cl[i])
              THEN [B |-> set_conflict_constraint(B, cl[i]), returned |-> TRUE]
              ELSE eval_loop(assign_eval(B, neg_lit(cl[i]), lvl), cl, i + 1, ef, lvl)
    ELSE eval_loop(B, cl, i + 1, ef, lvl)

\* The eager branch without its first loop: nothing is propagated before
\* the theory is asked.
value_propagate_pass_eval_only(B, cid, cl, ef, lvl) == eval_loop(B, cl, 1, ef, lvl)

value_propagate_pass(B, cid, cl, ef, lvl) ==
    LET u == find_undef_lit(B, cl, 1, null_literal)
        B1 == IF u # null_literal THEN assign_propagate(B, u, cid, lvl) ELSE B
    IN  eval_loop(B1, cl, 1, ef, lvl)

\* watch_unit without the test that the literal is unassigned.
watch_unit_always_propagates(B, cid, cl, lvl) ==
    IF is_false(B, cl[1]) THEN set_conflict_clause(B, cid)
    ELSE assign_propagate(B, cl[1], cid, lvl)

watch_unit(B, cid, cl, lvl) ==
    IF is_false(B, cl[1]) THEN set_conflict_clause(B, cid)
    ELSE IF ~is_assigned(B, cl[1]) THEN assign_propagate(B, cl[1], cid, lvl)
    ELSE B

\* Lines 196-209 on the normalized clause n: it is pushed on the watch
\* lists of its two front literals; then conflict or propagation.  `bad`
\* records a violated SASSERT of lines 201 and 203.
watch_front(B, cid, n, lvl) ==
    LET W1 == [B.watch EXCEPT ![n[1]] = Append(@, cid)]
        W2 == [W1 EXCEPT ![n[2]] = Append(@, cid)]
        Bw == [B EXCEPT !.watch = W2]
    IN  IF is_true(Bw, n[1]) THEN [B |-> Bw, cl |-> n, bad |-> FALSE]
        ELSE IF ~is_false(Bw, n[2])
             THEN [B |-> Bw, cl |-> n,
                   bad |-> is_true(Bw, n[2]) \/ is_assigned(Bw, n[1]) \/ is_assigned(Bw, n[2])]
        ELSE IF is_false(Bw, n[1])
             THEN [B |-> set_conflict_clause(Bw, cid), cl |-> n, bad |-> is_true(Bw, n[2])]
        ELSE [B |-> assign_propagate(Bw, n[1], cid, lvl), cl |-> n, bad |-> is_true(Bw, n[2])]

\* watch_general without the call of normalize_watch.
watch_general_unnormalized(B, cid, cl, lvl) == watch_front(B, cid, cl, lvl)

\* Lines 194-209: normalize, then install.
watch_general(B, cid, cl, lvl) == watch_front(B, cid, normalize_watch(B, cl), lvl)

\* constraint_manager::watch(cl, value_propagate) on clause object cid with
\* literals cl: the new boolean state, the clause's new literal order, and
\* whether an assertion failed.
watch(B, cid, cl, value_propagate, ef, lvl) ==
    IF Len(cl) = 0 THEN [B |-> B, cl |-> cl, bad |-> FALSE]
    ELSE LET p == IF value_propagate THEN value_propagate_pass(B, cid, cl, ef, lvl)
                  ELSE [B |-> B, returned |-> FALSE]
         IN  IF p.returned THEN [B |-> p.B, cl |-> cl, bad |-> FALSE]
             ELSE IF Len(cl) = 1 THEN [B |-> watch_unit(p.B, cid, cl, lvl), cl |-> cl, bad |-> FALSE]
             ELSE watch_general(p.B, cid, cl, lvl)

\* vector::erase(elem): removes the first occurrence, if any.
RECURSIVE erase_elem(_, _)
erase_elem(s, e) ==
    IF s = <<>> THEN <<>>
    ELSE IF Head(s) = e THEN Tail(s)
    ELSE <<Head(s)>> \o erase_elem(Tail(s), e)

\* constraint_manager::unwatch: the watch lists after uninstalling cl.
unwatch(W, cid, cl) ==
    IF Len(cl) <= 1 THEN W
    ELSE LET W1 == [W EXCEPT ![neg_lit(cl[1])] = erase_elem(@, cid)]
         IN  [W1 EXCEPT ![neg_lit(cl[2])] = erase_elem(@, cid)]


\* ------------------------------------------------------------------ pdd
\* A polynomial is <<"val", n>>, <<"var", i>> or an operator applied to
\* polynomials; values are kept modulo 2^K.
RECURSIVE Pow2(_)
Pow2(n) == IF n = 0 THEN 1 ELSE 2 * Pow2(n - 1)

mk_val(n, K) == <<"val", n % Pow2(K)>>
mk_var(i) == <<"var", i>>
is_val(p) == p[1] = "val"
is_zero(p) == p = <<"val", 0>>
is_one(p) == p = <<"val", 1>>
max_value(K) == Pow2(K) - 1

pdd_add(p, q, K) ==
    IF is_val(p) /\ is_val(q) THEN mk_val(p[2] + q[2], K)
    ELSE IF is_zero(p) THEN q
    ELSE IF is_zero(q) THEN p
    ELSE <<"add", p, q>>
pdd_neg(p, K) ==
    IF is_val(p) THEN mk_val(Pow2(K) - p[2], K) ELSE <<"neg", p>>
pdd_sub(p, q, K) == pdd_add(p, pdd_neg(q, K), K)
pdd_mul(p, q, K) ==
    IF is_val(p) /\ is_val(q) THEN mk_val(p[2] * q[2], K)
    ELSE IF is_zero(p) \/ is_zero(q) THEN mk_val(0, K)
    ELSE IF is_one(p) THEN q
    ELSE IF is_one(q) THEN p
    ELSE <<"mul", p, q>>

\* ------------------------------------------------- the manager's state
\* The manager and the solver state it writes, as one record, so that an
\* operation that calls several others threads the state through them.
Mgr == [cons |-> cons, m_constraints |-> m_constraints, m_dedup |-> m_dedup,
        m_bv2constraint |-> m_bv2constraint, num_bvars |-> num_bvars,
        clauses |-> clauses, m_clauses |-> m_clauses, B |-> BoolState,
        quot_rem_expr |-> quot_rem_expr, op_constraint_expr |-> op_constraint_expr,
        events |-> events, num_pvars |-> num_pvars,
        added |-> added, bad |-> assert_failed]

Commit(M) ==
    /\ cons' = M.cons
    /\ m_constraints' = M.m_constraints
    /\ m_dedup' = M.m_dedup
    /\ m_bv2constraint' = M.m_bv2constraint
    /\ num_bvars' = M.num_bvars
    /\ clauses' = M.clauses
    /\ m_clauses' = M.m_clauses
    /\ m_watch' = M.B.watch
    /\ m_value' = M.B.value
    /\ m_level' = M.B.level
    /\ m_reason' = M.B.reason
    /\ m_search' = M.B.search
    /\ conflict' = M.B.conflict
    /\ quot_rem_expr' = M.quot_rem_expr
    /\ op_constraint_expr' = M.op_constraint_expr
    /\ events' = M.events
    /\ num_pvars' = M.num_pvars
    /\ added' = M.added
    /\ assert_failed' = M.bad

\* bool_var_manager::new_var: the next unused index, unassigned, with empty
\* watch lists for its two literals.
new_var(M) ==
    LET n == M.num_bvars
        ext(f, d) == [v \in 0 .. n |-> IF v < n THEN f[v] ELSE d]
    IN  [M EXCEPT !.num_bvars = n + 1,
                  !.B.value = ext(@, "l_undef"),
                  !.B.level = ext(@, 0),
                  !.B.reason = ext(@, NULL),
                  !.B.watch = [l \in 0 .. (2 * n + 1) |-> IF l < 2 * n THEN @[l] ELSE <<>>]]

\* ------------------------------------------------ boolean-variable bridge
get_bv2c(M, bv) ==
    IF bv >= 0 /\ bv < Len(M.m_bv2constraint) THEN M.m_bv2constraint[bv + 1] ELSE NULL

has_bvar(M, c) == M.cons[c].bvar # null_bool_var

\* vector::setx(idx, elem, d): grows the vector with d up to idx, then sets.
setx(v, idx, elem, d) ==
    [i \in 1 .. (IF idx + 1 > Len(v) THEN idx + 1 ELSE Len(v)) |->
        IF i = idx + 1 THEN elem ELSE IF i <= Len(v) THEN v[i] ELSE d]

\* assign_bv2c that links the constraint but leaves the bridge entry as it was.
assign_bv2c_one_sided(M, bv, c) ==
    [M EXCEPT !.bad = @ \/ get_bv2c(M, bv) # NULL \/ has_bvar(M, c),
              !.cons[c].bvar = bv]

assign_bv2c(M, bv, c) ==
    [M EXCEPT !.bad = @ \/ get_bv2c(M, bv) # NULL \/ has_bvar(M, c),
              !.cons[c].bvar = bv,
              !.m_bv2constraint = setx(@, bv, c, NULL)]

\* erase_bv2c that clears the constraint's field but not the bridge entry.
erase_bv2c_one_sided(M, c) ==
    LET bv == M.cons[c].bvar
    IN  [M EXCEPT !.bad = @ \/ ~has_bvar(M, c) \/ get_bv2c(M, bv) # c,
                  !.cons[c].bvar = null_bool_var]

erase_bv2c(M, c) ==
    LET bv == M.cons[c].bvar
    IN  [M EXCEPT !.bad = @ \/ ~has_bvar(M, c) \/ get_bv2c(M, bv) # c,
                  !.m_bv2constraint = IF bv >= 0 /\ bv < Len(@)
                                      THEN [@ EXCEPT ![bv + 1] = NULL] ELSE @,
                  !.cons[c].bvar = null_bool_var]

ensure_bvar(M, c) ==
    IF ~has_bvar(M, c) THEN assign_bv2c(new_var(M), M.num_bvars, c) ELSE M

erase_bvar(M, c) ==
    IF has_bvar(M, c) THEN erase_bv2c(M, c) ELSE M

lookup(M, bv) == get_bv2c(M, bv)

\* ------------------------------------------------------------- storage
store_constraint(M, c) == [M EXCEPT !.m_constraints = Append(@, c)]

\* Lines 67-69: the clause is filed in the bucket of clause_level, after
\* the buckets up to it have been created.
file_clause(M, cid, clause_level) ==
    LET grown == IF Len(M.m_clauses) <= clause_level
                 THEN M.m_clauses \o [i \in 1 .. (clause_level + 1 - Len(M.m_clauses)) |-> <<>>]
                 ELSE M.m_clauses
    IN  [M EXCEPT !.m_clauses = [grown EXCEPT ![clause_level + 1] = Append(@, cid)]]

\* register_clause without line 66: the clause is filed at the base level.
register_clause_at_base_level(M, cid, base_level) == file_clause(M, cid, base_level)

\* register_clause: clause_level is read from s.base_level() (line 65) and
\* overwritten with 0 (line 66).
register_clause(M, cid, base_level) == file_clause(M, cid, 0)

\* The manager after watch has returned r for clause cid.
watched(M, cid, r) ==
    [M EXCEPT !.B = r.B, !.clauses[cid].lits = r.cl, !.bad = @ \/ r.bad]

watch_clause(M, cid, value_propagate, ef, lvl) ==
    watched(M, cid, watch(M.B, cid, M.clauses[cid].lits, value_propagate, ef, lvl))

\* store(cl, value_propagate) at solver level lvl, which is also taken for
\* the base level that register_clause reads.
store_clause(M, cid, value_propagate, ef, lvl) ==
    watch_clause(register_clause(M, cid, lvl), cid, value_propagate, ef, lvl)

\* release_bucket that unwatches nothing: the bucket is reset as it is.
release_bucket_no_unwatch(M, bucket, k) ==
    [M EXCEPT !.clauses = [cid \in DOMAIN @ |->
                             IF \E j \in DOMAIN bucket : bucket[j] = cid
                             THEN [@[cid] EXCEPT !.live = FALSE] ELSE @[cid]]]

\* The inner loop of release_level over one bucket, then its reset: every
\* clause is unwatched, and the reset drops the bucket's reference, which
\* is the last one (line 82), so the clause is freed.
RECURSIVE release_bucket(_, _, _)
release_bucket(M, bucket, k) ==
    IF k > Len(bucket) THEN M
    ELSE LET cid == bucket[k]
         IN  release_bucket([M EXCEPT !.B.watch = unwatch(@, cid, M.clauses[cid].lits),
                                      !.clauses[cid].live = FALSE,
                                      !.events = Append(@, <<"unwatch", cid>>)],
                            bucket, k + 1)

\* release_level whose loop stops one bucket early (l-- > lvl + 1).
RECURSIVE release_from_above(_, _, _)
release_from_above(M, l, lvl) ==
    IF l <= lvl + 1 THEN M
    ELSE LET M1 == release_bucket(M, M.m_clauses[l], 1)
         IN  release_from_above([M1 EXCEPT !.m_clauses[l] = <<>>,
                                             !.events = Append(@, <<"reset", l - 1>>)],
                                l - 1, lvl)

\* The loop of release_level: l is the number of buckets still to visit,
\* so bucket l-1 of the source is m_clauses[l] here.
RECURSIVE release_from(_, _, _)
release_from(M, l, lvl) ==
    IF l <= lvl THEN M
    ELSE LET M1 == release_bucket(M, M.m_clauses[l], 1)
         IN  release_from([M1 EXCEPT !.m_clauses[l] = <<>>,
                                       !.events = Append(@, <<"reset", l - 1>>)],
                          l - 1, lvl)

release_level(M, lvl) == release_from([M EXCEPT !.events = <<>>], Len(M.m_clauses), lvl)

\* ------------------------------------------------------------------ gc
Range(s) == {s[i] : i \in DOMAIN s}

used_vars(M) ==
    {lit_var(lit) : lit \in UNION {Range(M.clauses[cid].lits) :
                                     cid \in UNION {Range(b) : b \in Range(M.m_clauses)}}}
    \cup {lit_var(lit) : lit \in Range(M.B.search)}

swap_pop(v, i) ==
    LET n == Len(v)
        sw == [v EXCEPT ![i] = v[n], ![n] = v[i]]
    IN  SubSeq(sw, 1, n - 1)

\* The sweep without the --i of line 281: the element swapped in is skipped.
RECURSIVE gc_sweep_skipping(_, _, _)
gc_sweep_skipping(M, used, i) ==
    IF i > Len(M.m_constraints) THEN M
    ELSE LET c == M.m_constraints[i]
         IN  IF has_bvar(M, c) /\ M.cons[c].bvar \in used THEN gc_sweep_skipping(M, used, i + 1)
             ELSE IF M.cons[c].ext THEN gc_sweep_skipping(M, used, i + 1)
             ELSE LET M1 == erase_bvar(M, c)
                  IN  gc_sweep_skipping([M1 EXCEPT !.m_constraints = swap_pop(@, i),
                                                   !.cons[c].live = FALSE],
                                        used, i + 1)

\* The sweep of lines 271-282; index i of the source is i+1 here.  pop_back
\* on the owning vector frees the constraint.
RECURSIVE gc_sweep(_, _, _)
gc_sweep(M, used, i) ==
    IF i > Len(M.m_constraints) THEN M
    ELSE LET c == M.m_constraints[i]
         IN  IF has_bvar(M, c) /\ M.cons[c].bvar \in used THEN gc_sweep(M, used, i + 1)
             ELSE IF M.cons[c].ext THEN gc_sweep(M, used, i + 1)
             ELSE LET M1 == erase_bvar(M, c)
                  IN  gc_sweep([M1 EXCEPT !.m_constraints = swap_pop(@, i),
                                          !.cons[c].live = FALSE],
                               used, i)

gc_constraints(M) == gc_sweep(M, used_vars(M), 1)
gc_clauses(M) == M
gc(M) == gc_constraints(gc_clauses(M))

\* --------------------------------------------------------------- dedup
\* The entries of m_dedup.constraints that compare equal to a candidate
\* with this structural key.
dedup_find(M, key) == {c \in M.m_dedup : M.cons[c].key = key}

alloc_constraint(M, key) ==
    [M EXCEPT !.cons = Append(@, [key |-> key, bvar |-> null_bool_var,
                                  ext |-> FALSE, live |-> TRUE])]

\* dedup on a miss, storing the candidate but not registering it in the table.
dedup_miss_unregistered(M, key) ==
    LET c1 == Len(M.cons) + 1
        M1 == alloc_constraint(M, key)
        M2 == ensure_bvar([M1 EXCEPT !.bad = @ \/ has_bvar(M1, c1)], c1)
    IN  [M |-> store_constraint(M2, c1), c |-> c1]

\* dedup when find fails: the candidate gets a variable, is registered and stored.
dedup_miss(M, key) ==
    LET c1 == Len(M.cons) + 1
        M1 == alloc_constraint(M, key)
        M2 == ensure_bvar([M1 EXCEPT !.bad = @ \/ has_bvar(M1, c1)], c1)
        M3 == [M2 EXCEPT !.m_dedup = @ \cup {c1}]
    IN  [M |-> store_constraint(M3, c1), c |-> c1]

\* dedup when find succeeds with c2: the candidate is deallocated.
dedup_hit(M, c2) == [M |-> M, c |-> c2]

\* dedup where every registered constraint is still allocated.
dedup(M, key) ==
    LET found == dedup_find(M, key)
    IN  IF found # {} THEN dedup_hit(M, CHOOSE c \in found : TRUE)
        ELSE dedup_miss(M, key)


\* -------------------------------------------------------- axiomatizers
\* ule_constraint::simplify, as far as the manager relies on it: a
\* comparison that is decided by its operands alone becomes 0 <= 0 with the
\* polarity saying whether it holds; any other is left as it is.
simplify(a, b) ==
    IF is_zero(a) \/ a = b THEN [pos |-> TRUE, lhs |-> <<"val", 0>>, rhs |-> <<"val", 0>>]
    ELSE IF is_val(a) /\ is_val(b)
         THEN [pos |-> a[2] <= b[2], lhs |-> <<"val", 0>>, rhs |-> <<"val", 0>>]
    ELSE [pos |-> TRUE, lhs |-> a, rhs |-> b]

\* A signed constraint is [c |-> constraint, pos |-> polarity]; the builders
\* return it with the manager's new state.
ule(M, a, b) ==
    LET sm == simplify(a, b)
        d == dedup(M, <<"ule", sm.lhs, sm.rhs>>)
    IN  [M |-> d.M, c |-> d.c, pos |-> sm.pos]

eq(M, p) == ule(M, p, <<"val", 0>>)

ult(M, a, b) ==
    LET u == ule(M, b, a) IN [M |-> u.M, c |-> u.c, pos |-> ~u.pos]

umul_ovfl(M, a, b) ==
    LET d == dedup(M, <<"umul_ovfl", a, b>>) IN [M |-> d.M, c |-> d.c, pos |-> TRUE]

neg_sc(sc) == [c |-> sc.c, pos |-> ~sc.pos]
sc_of(r) == [c |-> r.c, pos |-> r.pos]
blit(M, sc) == mk_lit(M.cons[sc.c].bvar, ~sc.pos)

\* solver::add_clause(c1, ..., is_redundant): a clause of the constraints'
\* literals is created and handed to store; `added` keeps what was handed
\* over, each literal as <<structural key, polarity>>.
add_clause(M, scs, ef, lvl) ==
    LET cid == Len(M.clauses) + 1
        lits == [i \in 1 .. Len(scs) |-> blit(M, scs[i])]
        M1 == [M EXCEPT !.clauses = Append(@, [lits |-> lits, live |-> TRUE]),
                        !.added = Append(@, [i \in 1 .. Len(scs) |->
                                               <<M.cons[scs[i].c].key, scs[i].pos>>])]
    IN  store_clause(M1, cid, FALSE, ef, lvl)

\* ------------------------------------------------------------- quot_rem
quot_rem_is_folded(a, b) == is_zero(b) \/ is_one(b) \/ (is_val(a) /\ is_val(b))

\* The constant folding with q = 0 for a zero divisor.
quot_rem_fold_zero_quotient(a, b, K) ==
    IF is_zero(b) THEN [q |-> mk_val(0, K), r |-> a, bad |-> FALSE]
    ELSE IF is_one(b) THEN [q |-> a, r |-> mk_val(0, K), bad |-> FALSE]
    ELSE LET qv == a[2] \div b[2]
             rv == a[2] % b[2]
             q == mk_val(qv, K)
             r == mk_val(rv, K)
         IN  [q |-> q, r |-> r, bad |-> FALSE]

\* Lines 365-385: the result for operands the code folds, and whether one
\* of the assertions of lines 375-383 failed.  machine_div_rem of two
\* non-negative numbers is the truncating division.
quot_rem_fold(a, b, K) ==
    IF is_zero(b) THEN [q |-> mk_val(max_value(K), K), r |-> a, bad |-> FALSE]
    ELSE IF is_one(b) THEN [q |-> a, r |-> mk_val(0, K), bad |-> FALSE]
    ELSE LET qv == a[2] \div b[2]
             rv == a[2] % b[2]
             q == mk_val(qv, K)
             r == mk_val(rv, K)
         IN  [q |-> q, r |-> r,
              bad |-> \/ b[2] = 0
                      \/ a # pdd_add(pdd_mul(b, q, K), r, K)
                      \/ ~(b[2] * q[2] + r[2] <= max_value(K))
                      \/ ~(r[2] <= pdd_add(pdd_mul(b, q, K), r, K)[2])
                      \/ ~(r[2] < b[2])]

quot_rem_memo(M, a, b) == {e \in M.quot_rem_expr : e[1] = a /\ e[2] = b}

\* s.add_clause(c, false) and s.add_clause(~c, false) for the constraint c
\* that builder result e holds.
add_unit(e, negated, ef, lvl) ==
    add_clause(e.M, <<IF negated THEN neg_sc(sc_of(e)) ELSE sc_of(e)>>, ef, lvl)

\* s.add_clause(c1, c2, false) for c1 built before c2, which e holds.
add_binary(c1, e, ef, lvl) == add_clause(e.M, <<c1, sc_of(e)>>, ef, lvl)

\* Lines 408-412: the first three clauses.
quot_rem_axioms(M, a, b, q, r, K, ef, lvl) ==
    LET M1 == add_unit(eq(M, pdd_sub(pdd_add(pdd_mul(b, q, K), r, K), a, K)), FALSE, ef, lvl)
        M2 == add_unit(umul_ovfl(M1, b, q), TRUE, ef, lvl)
    IN  add_unit(ule(M2, pdd_mul(b, q, K), pdd_sub(pdd_neg(r, K), mk_val(1, K), K)),
                 FALSE, ef, lvl)

\* Lines 421-422: the two clauses on c_eq = eq(b).
quot_rem_zero_axioms(c_eq, b, q, r, K, ef, lvl) ==
    LET M4 == add_binary(sc_of(c_eq), ult(c_eq.M, r, b), ef, lvl)
    IN  add_binary(neg_sc(sc_of(c_eq)), eq(M4, pdd_add(q, mk_val(1, K), K)), ef, lvl)

\* Lines 408-425 on the manager M0 that holds the fresh variables q and r.
quot_rem_clauses(M0, a, b, q, r, K, ef, lvl) ==
    [M |-> quot_rem_zero_axioms(eq(quot_rem_axioms(M0, a, b, q, r, K, ef, lvl), b),
                                b, q, r, K, ef, lvl),
     q |-> q, r |-> r]

\* The miss path that emits its clauses without recording the pair.
quot_rem_miss_unrecorded(M, a, b, K, ef, lvl) ==
    quot_rem_clauses([M EXCEPT !.num_pvars = @ + 2],
                     a, b, mk_var(M.num_pvars), mk_var(M.num_pvars + 1), K, ef, lvl)

\* Lines 398-425: two fresh variables, the memo entry, the five clauses.
quot_rem_miss(M, a, b, K, ef, lvl) ==
    quot_rem_clauses([M EXCEPT !.num_pvars = @ + 2,
                               !.quot_rem_expr = @ \cup {<<a, b, M.num_pvars, M.num_pvars + 1>>}],
                     a, b, mk_var(M.num_pvars), mk_var(M.num_pvars + 1), K, ef, lvl)

\* ------------------------------------------------------------ Init parts
RECURSIVE SeqsUpTo(_, _)
SeqsUpTo(S, n) ==
    IF n = 0 THEN {<<>>}
    ELSE LET P == SeqsUpTo(S, n - 1)
         IN  P \cup {Append(s, x) : s \in {t \in P : Len(t) = n - 1}, x \in S}

\* The trail of an assignment: its assigned variables as true literals, by
\* level and then by variable.
RECURSIVE trail_of(_, _, _)
trail_of(val, lev, todo) ==
    IF todo = {} THEN <<>>
    ELSE LET v == CHOOSE x \in todo :
                    \A y \in todo : lev[x] < lev[y] \/ (lev[x] = lev[y] /\ x <= y)
         IN  <<mk_lit(v, val[v] = "l_false")>> \o trail_of(val, lev, todo \ {v})

EmptyWatch == [l \in Literals |-> <<>>]

InitManager ==
    /\ cons = <<>>
    /\ m_constraints = <<>>
    /\ m_dedup = {}
    /\ m_bv2constraint = <<>>
    /\ quot_rem_expr = {}
    /\ op_constraint_expr = {}
    /\ events = <<>>
    /\ added = <<>>
    /\ assert_failed = FALSE
    /\ first_ret = {}
    /\ call = <<"init">>
    /\ ret = <<>>

\* ------------------------------------------------------------ SpecWatch
\* watch applied to one clause under every boolean assignment.
InitWatch ==
    /\ InitManager
    /\ num_bvars = MaxBVars
    /\ num_pvars = 0
    /\ width = 1
    /\ eval_false = {}
    /\ m_clauses = <<>>
    /\ m_watch = EmptyWatch
    /\ conflict = NoConflict
    /\ m_reason = [v \in BVars |-> NULL]
    /\ m_value \in [BVars -> {"l_undef", "l_true", "l_false"}]
    /\ m_level \in [BVars -> Levels]
    /\ \A v \in BVars : m_value[v] = "l_undef" => m_level[v] = 0
    /\ cur_level \in Levels
    /\ \A v \in BVars : m_level[v] <= cur_level
    /\ m_search = trail_of(m_value, m_level, {v \in BVars : m_value[v] # "l_undef"})
    /\ \E cl \in SeqsUpTo(Literals, MaxClauseLen) :
          clauses = <<[lits |-> cl, live |-> TRUE]>>

\* constraint_manager::watch(cl, false) on the clause, once.
Watch ==
    /\ call = <<"init">>
    /\ \E r \in {watch(BoolState, 1, clauses[1].lits, FALSE, eval_false, cur_level)} :
           /\ clauses' = [clauses EXCEPT ![1].lits = r.cl]
           /\ m_watch' = r.B.watch
           /\ m_value' = r.B.value
           /\ m_level' = r.B.level
           /\ m_reason' = r.B.reason
           /\ m_search' = r.B.search
           /\ conflict' = r.B.conflict
           /\ assert_failed' = r.bad
    /\ call' = <<"watch", 1, FALSE>>
    /\ UNCHANGED <<consVars, m_clauses, cur_level, eval_false, termVars, width, ret, first_ret>>

NextWatch == Watch

SpecWatch == InitWatch /\ [][NextWatch]_vars

\* ------------------------------------------------- claims on SpecWatch
\* The clause of SpecWatch on entry of a step and on its exit.
EntryLits == clauses[1].lits
ExitLits == clauses'[1].lits
WatchStep == call = <<"init">> /\ call' = <<"watch", 1, FALSE>>
Positions(cl) == 1 .. Len(cl)

\* C3: after normalize_watch on a clause of size > 1, under the assignment it
\* ran with, the watch level of position 0 is >= that of position 1, every
\* position >= 2 has a watch level <= that of position 1; so a true literal,
\* if there is one, is at position 0, and position 1 is false only if every
\* position >= 1 is false.
C3_WatchNormalized ==
    [][(WatchStep /\ Len(EntryLits) > 1) =>
        LET B == BoolState
            cl == ExitLits
        IN  /\ get_watch_level(B, cl[1]) >= get_watch_level(B, cl[2])
            /\ \A i \in 3 .. Len(cl) : get_watch_level(B, cl[i]) <= get_watch_level(B, cl[2])
            /\ (\E i \in Positions(cl) : is_true(B, cl[i])) => is_true(B, cl[1])
            /\ is_false(B, cl[2]) => \A i \in 2 .. Len(cl) : is_false(B, cl[i])]_vars

\* A clause of three literals was watched and ends with a literal assigned
\* true in front, an unassigned one second and a false one last.
C3_Witness ==
    /\ call = <<"watch", 1, FALSE>>
    /\ Len(clauses[1].lits) = 3
    /\ m_value[lit_var(clauses[1].lits[1])] # "l_undef"
    /\ m_reason[lit_var(clauses[1].lits[1])] = NULL
    /\ is_true(BoolState, clauses[1].lits[1])
    /\ ~is_assigned(BoolState, clauses[1].lits[2])
    /\ is_false(BoolState, clauses[1].lits[3])

\* C4: watch(cl, false) on a clause of size > 1 signals a clause conflict
\* exactly when every literal is false on entry, propagates a literal true
\* (the clause its reason) exactly when one position is unassigned and all
\* others are false, that literal being the unassigned one, and otherwise
\* neither assigns nor signals; the assertions of lines 201 and 203 hold.
C4_AllFalse(B, cl) == \A i \in Positions(cl) : is_false(B, cl[i])
C4_UnitUnder(B, cl) ==
    /\ Cardinality({i \in Positions(cl) : ~is_assigned(B, cl[i])}) = 1
    /\ \A i \in Positions(cl) : is_assigned(B, cl[i]) => is_false(B, cl[i])
C4_TheUndef(B, cl) == cl[CHOOSE i \in Positions(cl) : ~is_assigned(B, cl[i])]
C4_Assignment == <<m_value, m_level, m_reason, m_search>>

C4_WatchOutcome ==
    [][(WatchStep /\ Len(EntryLits) > 1) =>
        LET B == BoolState
            cl == EntryLits
        IN  /\ assert_failed' = FALSE
            /\ (conflict' # NoConflict) <=> C4_AllFalse(B, cl)
            /\ C4_AllFalse(B, cl) => conflict' = <<"clause", 1>> /\ UNCHANGED C4_Assignment
            /\ (C4_Assignment' # C4_Assignment) <=> C4_UnitUnder(B, cl)
            /\ C4_UnitUnder(B, cl) =>
                  LET u == C4_TheUndef(B, cl)
                  IN  /\ m_value' = [m_value EXCEPT ![lit_var(u)] =
                                        IF lit_sign(u) = 1 THEN "l_false" ELSE "l_true"]
                      /\ m_reason' = [m_reason EXCEPT ![lit_var(u)] = 1]
                      /\ m_level' = [m_level EXCEPT ![lit_var(u)] = cur_level]
                      /\ m_search' = Append(m_search, u)]_vars

\* A clause of three literals, two false and one unassigned on entry, was
\* watched: its front literal is now true by propagation from the clause.
C4_Witness ==
    /\ call = <<"watch", 1, FALSE>>
    /\ Len(clauses[1].lits) = 3
    /\ m_reason[lit_var(clauses[1].lits[1])] = 1
    /\ is_true(BoolState, clauses[1].lits[1])
    /\ is_false(BoolState, clauses[1].lits[2])
    /\ is_false(BoolState, clauses[1].lits[3])
    /\ conflict = NoConflict

\* C5: watch(cl, false) on a unit clause: a false literal gives a clause
\* conflict, an unassigned one is propagated true with the clause as
\* reason, a true one changes nothing; no watch list is modified; and on
\* an empty clause nothing changes at all.
C5_UnitAndEmpty ==
    [][(WatchStep /\ Len(EntryLits) <= 1) =>
        LET B == BoolState
            cl == EntryLits
        IN  /\ m_watch' = m_watch
            /\ clauses' = clauses
            /\ Len(cl) = 0 => UNCHANGED <<C4_Assignment, conflict, assert_failed>>
            /\ (Len(cl) = 1 /\ is_false(B, cl[1])) =>
                  conflict' = <<"clause", 1>> /\ UNCHANGED C4_Assignment
            /\ (Len(cl) = 1 /\ is_true(B, cl[1])) =>
                  UNCHANGED <<C4_Assignment, conflict>>
            /\ (Len(cl) = 1 /\ ~is_assigned(B, cl[1])) =>
                  /\ conflict' = NoConflict
                  /\ m_value' = [m_value EXCEPT ![lit_var(cl[1])] =
                                    IF lit_sign(cl[1]) = 1 THEN "l_false" ELSE "l_true"]
                  /\ m_reason' = [m_reason EXCEPT ![lit_var(cl[1])] = 1]
                  /\ m_level' = [m_level EXCEPT ![lit_var(cl[1])] = cur_level]
                  /\ m_search' = Append(m_search, cl[1])]_vars

\* A unit clause whose literal was false was watched: the clause is the conflict.
C5_Witness ==
    /\ call = <<"watch", 1, FALSE>>
    /\ Len(clauses[1].lits) = 1
    /\ is_false(BoolState, clauses[1].lits[1])
    /\ conflict = <<"clause", 1>>
    /\ \A l \in Literals : m_watch[l] = <<>>

\* -------------------------------------------------------------- SpecDiv
\* quot_rem on two concrete operands, for every width up to MaxWidth.
InitSolver ==
    /\ num_bvars = 0
    /\ eval_false = {}
    /\ clauses = <<>>
    /\ m_clauses = <<>>
    /\ m_watch = <<>>
    /\ m_value = <<>>
    /\ m_level = <<>>
    /\ m_reason = <<>>
    /\ m_search = <<>>
    /\ cur_level = 0
    /\ conflict = NoConflict

InitDiv ==
    /\ InitManager
    /\ InitSolver
    /\ num_pvars = 0
    /\ width \in 1 .. MaxWidth

\* quot_rem(a, b) returning at line 367, 370 or 384.
QuotRemFold(a, b) ==
    /\ quot_rem_is_folded(a, b)
    /\ \E f \in {quot_rem_fold(a, b, width)} :
           /\ ret' = <<f.q, f.r>>
           /\ assert_failed' = (assert_failed \/ f.bad)
    /\ call' = <<"quot_rem", a, b>>
    /\ UNCHANGED <<consVars, clauseVars, boolVars, termVars, cur_level, eval_false, width,
                   first_ret>>

NextDiv ==
    \E a, b \in {<<"val", n>> : n \in 0 .. max_value(width)} : QuotRemFold(a, b)

SpecDiv == InitDiv /\ [][NextDiv]_vars

\* C6: quot_rem on concrete a, b of width K: b = 0 gives (2^K - 1, a);
\* b # 0 gives concrete (q, r) with b*q + r = a over the integers, hence
\* without wrap-around, and r < b; b = 1 gives (a, 0).
C6_ConcreteDivision ==
    (call[1] = "quot_rem" /\ is_val(call[2]) /\ is_val(call[3])) =>
        LET a == call[2][2]
            b == call[3][2]
            q == ret[1]
            r == ret[2]
        IN  /\ ~assert_failed
            /\ b = 0 => (q = <<"val", Pow2(width) - 1>> /\ r = <<"val", a>>)
            /\ b = 1 => (q = <<"val", a>> /\ r = <<"val", 0>>)
            /\ b # 0 => /\ is_val(q) /\ is_val(r)
                        /\ q[2] \in 0 .. (Pow2(width) - 1)
                        /\ r[2] \in 0 .. (Pow2(width) - 1)
                        /\ b * q[2] + r[2] = a
                        /\ b * q[2] + r[2] <= Pow2(width) - 1
                        /\ r[2] < b

\* At width 4, quot_rem(5, 0) returned (15, 5).
C6_Witness ==
    /\ width = 4
    /\ call = <<"quot_rem", <<"val", 5>>, <<"val", 0>>>>
    /\ ret = <<<<"val", 15>>, <<"val", 5>>>>

\* ---------------------------------------------------------- SpecQuotRem
\* Sequences of quot_rem calls on symbolic and concrete operands.
TermOperands == {<<"val", 0>>, <<"val", 1>>, <<"val", 2>>, <<"var", 0>>, <<"var", 1>>}

InitQuotRem ==
    /\ InitManager
    /\ InitSolver
    /\ num_pvars = 2
    /\ width = MaxWidth

\* quot_rem(a, b) returning the memoized pair at line 396.
QuotRemHit(a, b) ==
    /\ ~quot_rem_is_folded(a, b)
    /\ quot_rem_memo(Mgr, a, b) # {}
    /\ LET e == CHOOSE e \in quot_rem_memo(Mgr, a, b) : TRUE
       IN  ret' = <<mk_var(e[3]), mk_var(e[4])>>
    /\ call' = <<"quot_rem", a, b>>
    /\ UNCHANGED <<consVars, clauseVars, boolVars, termVars, cur_level, eval_false,
                   width, assert_failed, first_ret>>

\* quot_rem(a, b) running to line 425.
QuotRemMiss(a, b) ==
    /\ ~quot_rem_is_folded(a, b)
    /\ quot_rem_memo(Mgr, a, b) = {}
    /\ Cardinality(quot_rem_expr) < MaxPairs
    /\ \E m \in {quot_rem_miss(Mgr, a, b, width, eval_false, cur_level)} :
           /\ Commit(m.M)
           /\ ret' = <<m.q, m.r>>
    /\ call' = <<"quot_rem", a, b>>
    /\ UNCHANGED <<cur_level, eval_false, width, first_ret>>

NextQuotRem ==
    \E a, b \in TermOperands :
        \/ QuotRemFold(a, b)
        \/ QuotRemHit(a, b)
        \/ QuotRemMiss(a, b)

SpecQuotRem == InitQuotRem /\ [][NextQuotRem]_vars

\* C7: for operands that are not folded, the first quot_rem call of a pair
\* allocates two fresh variables q, r, records the pair and emits the five
\* defining clauses; a later call of the pair returns the same q, r,
\* allocates nothing and emits nothing; so the clauses emitted are always
\* five times the pairs seen.
C7_Ule(l, r) ==
    IF is_val(l) /\ is_val(r)
    THEN <<<<"ule", <<"val", 0>>, <<"val", 0>>>>, l[2] <= r[2]>>
    ELSE <<<<"ule", l, r>>, TRUE>>
C7_Not(x) == <<x[1], ~x[2]>>
C7_Zero == <<"val", 0>>
C7_Clauses(a, b, q, r, K) ==
    << <<C7_Ule(pdd_sub(pdd_add(pdd_mul(b, q, K), r, K), a, K), C7_Zero)>>,
       <<C7_Not(<<<<"umul_ovfl", b, q>>, TRUE>>)>>,
       <<C7_Ule(pdd_mul(b, q, K), pdd_sub(pdd_neg(r, K), <<"val", 1>>, K))>>,
       <<C7_Ule(b, C7_Zero), C7_Not(C7_Ule(b, r))>>,
       <<C7_Not(C7_Ule(b, C7_Zero)), C7_Ule(pdd_add(q, <<"val", 1>>, K), C7_Zero)>> >>

C7_Counts ==
    /\ Len(added) = 5 * Cardinality(quot_rem_expr)
    /\ num_pvars = 2 + 2 * Cardinality(quot_rem_expr)
    /\ \A e1, e2 \in quot_rem_expr : (e1[1] = e2[1] /\ e1[2] = e2[2]) => e1 = e2

C7_Step ==
    (call'[1] = "quot_rem" /\ ~quot_rem_is_folded(call'[2], call'[3])) =>
        LET a == call'[2]
            b == call'[3]
            known == {e \in quot_rem_expr : e[1] = a /\ e[2] = b}
        IN  IF known = {}
            THEN /\ ret' = <<mk_var(num_pvars), mk_var(num_pvars + 1)>>
                 /\ num_pvars' = num_pvars + 2
                 /\ quot_rem_expr' = quot_rem_expr \cup {<<a, b, num_pvars, num_pvars + 1>>}
                 /\ added' = added \o C7_Clauses(a, b, ret'[1], ret'[2], width)
            ELSE /\ \E e \in known : ret' = <<mk_var(e[3]), mk_var(e[4])>>
                 /\ UNCHANGED <<num_pvars, quot_rem_expr, added, consVars, clauseVars, boolVars>>

C7_QuotRemMemo == [](C7_Counts) /\ [][C7_Step]_vars

\* Two pairs are memoized, ten clauses were emitted, and the last call was
\* a repeated one that returned the first pair's variables.
C7_Witness ==
    /\ Cardinality(quot_rem_expr) = 2
    /\ Len(added) = 10
    /\ call = <<"quot_rem", <<"var", 0>>, <<"var", 1>>>>
    /\ ret = <<<<"var", 2>>, <<"var", 3>>>>
    /\ num_pvars = 6


\* ---------------------------------------------------------- dedup calls
DedupOperands == {<<"val", 0>>, <<"var", 0>>}
MainOperands == {<<"var", 0>>, <<"var", 1>>}
solverVars == <<cur_level, eval_false, width>>

\* first_ret is kept only where it is read (track): it is a history of the
\* calls, not state of the program.
Record(track, key, c, bv) ==
    IF ~track \/ \E e \in first_ret : e[1] = key THEN first_ret
    ELSE first_ret \cup {<<key, c, bv>>}

\* dedup finds the key registered (line 236 true).  An entry whose
\* constraint gc has freed is a dangling pointer: the lookup reads freed
\* memory and may or may not take it for a match.
DedupHit(name, key, pos, track) ==
    \E c2 \in dedup_find(Mgr, key) :
        /\ LET d == dedup_hit(Mgr, c2)
           IN  /\ Commit(d.M)
               /\ ret' = <<d.c, pos>>
               /\ first_ret' = Record(track, key, d.c, d.M.cons[d.c].bvar)
        /\ call' = <<name, key>>
        /\ UNCHANGED solverVars

\* dedup does not find the key (line 240).
DedupMiss(name, key, pos, track) ==
    /\ \A c \in dedup_find(Mgr, key) : ~cons[c].live
    /\ Len(cons) < MaxCons
    /\ num_bvars < MaxCons
    /\ LET d == dedup_miss(Mgr, key)
       IN  /\ Commit(d.M)
           /\ ret' = <<d.c, pos>>
           /\ first_ret' = Record(track, key, d.c, d.M.cons[d.c].bvar)
    /\ call' = <<name, key>>
    /\ UNCHANGED solverVars

UleKey(a, b) == <<"ule", simplify(a, b).lhs, simplify(a, b).rhs>>

UleHit(a, b, track) == DedupHit("ule", UleKey(a, b), simplify(a, b).pos, track)
UleMiss(a, b, track) == DedupMiss("ule", UleKey(a, b), simplify(a, b).pos, track)
UmulOvflHit(a, b, track) == DedupHit("umul_ovfl", <<"umul_ovfl", a, b>>, TRUE, track)
UmulOvflMiss(a, b, track) == DedupMiss("umul_ovfl", <<"umul_ovfl", a, b>>, TRUE, track)

NextDedup ==
    \E a, b \in DedupOperands :
        \/ UleHit(a, b, TRUE)
        \/ UleMiss(a, b, TRUE)
        \/ UmulOvflHit(a, b, TRUE)
        \/ UmulOvflMiss(a, b, TRUE)

InitMain ==
    /\ InitManager
    /\ InitSolver
    /\ num_pvars = 2
    /\ width = MaxWidth

\* Sequences of dedup calls alone.
SpecDedup == InitMain /\ [][NextDedup]_vars

\* C1: over dedup calls with no collection in between, two calls with the
\* same structural key return the same constraint with the same boolean
\* variable; a hit allocates no variable and stores nothing, a miss
\* allocates one variable and stores one constraint; so the variables
\* allocated and the constraints stored equal the distinct keys requested.
C1_Requested == {e[1] : e \in first_ret}
C1_IsDedupCall(c) == c[1] \in {"ule", "umul_ovfl"}

C1_State ==
    /\ num_bvars = Cardinality(C1_Requested)
    /\ Len(m_constraints) = Cardinality(C1_Requested)
    /\ C1_IsDedupCall(call) =>
          \E e \in first_ret : /\ e[1] = call[2]
                               /\ ret[1] = e[2]
                               /\ cons[ret[1]].bvar = e[3]
                               /\ e[3] # null_bool_var
                               /\ cons[ret[1]].key = call[2]

C1_Step ==
    C1_IsDedupCall(call') =>
        IF call'[2] \in C1_Requested
        THEN UNCHANGED <<consVars, clauseVars, boolVars>>
        ELSE /\ num_bvars' = num_bvars + 1
             /\ m_constraints' = Append(m_constraints, ret'[1])
             /\ ret'[1] \notin Range(m_constraints)

C1_DedupIdempotent == [](C1_State) /\ [][C1_Step]_vars

\* ule(x, 0) was requested again after another key: it returned the first
\* constraint, whose variable is still 0, and two variables exist.
C1_Witness ==
    /\ call = <<"ule", <<"ule", <<"var", 0>>, <<"val", 0>>>>>>
    /\ ret = <<1, TRUE>>
    /\ cons[1].bvar = 0
    /\ num_bvars = 2
    /\ Len(m_constraints) = 2

\* ----------------------------------------------------------------- Spec
StoredCons == Range(m_constraints)

\* constraint::set_external, by the solver, on a stored constraint.
SetExternal(c) ==
    /\ c \in StoredCons
    /\ ~cons[c].ext
    /\ cons' = [cons EXCEPT ![c].ext = TRUE]
    /\ call' = <<"set_external">>
    /\ ret' = <<>>
    /\ UNCHANGED <<m_constraints, m_dedup, m_bv2constraint, num_bvars, clauseVars, boolVars,
                   termVars, solverVars, assert_failed, first_ret>>

EnsureBvar(c) ==
    /\ c \in StoredCons
    /\ has_bvar(Mgr, c) \/ num_bvars < MaxCons
    /\ Commit(ensure_bvar(Mgr, c))
    /\ call' = <<"ensure_bvar">>
    /\ ret' = <<>>
    /\ UNCHANGED <<solverVars, first_ret>>

EraseBvar(c) ==
    /\ c \in StoredCons
    /\ Commit(erase_bvar(Mgr, c))
    /\ call' = <<"erase_bvar">>
    /\ ret' = <<>>
    /\ UNCHANGED <<solverVars, first_ret>>

\* store(cl, value_propagate) of a new clause over the allocated variables.
Store(lits, value_propagate) ==
    /\ Len(clauses) < MaxStored
    /\ LET cid == Len(clauses) + 1
           M1 == [Mgr EXCEPT !.clauses = Append(@, [lits |-> lits, live |-> TRUE])]
       IN  Commit(store_clause(M1, cid, value_propagate, eval_false, cur_level))
    /\ call' = <<"store", value_propagate>>
    /\ ret' = <<>>
    /\ UNCHANGED <<solverVars, first_ret>>

ReleaseLevel(lvl) ==
    /\ Commit(release_level(Mgr, lvl))
    /\ call' = <<"release_level", lvl>>
    /\ ret' = <<>>
    /\ UNCHANGED <<solverVars, first_ret>>

Gc ==
    /\ Commit(gc(Mgr))
    /\ call' = <<"gc">>
    /\ ret' = <<>>
    /\ UNCHANGED <<solverVars, first_ret>>

Next ==
    \/ \E a, b \in MainOperands : UleHit(a, b, FALSE) \/ UleMiss(a, b, FALSE)
    \/ \E c \in 1 .. MaxCons : SetExternal(c) \/ EnsureBvar(c) \/ EraseBvar(c)
    \/ Gc

\* The life of constraints: dedup, the variable bridge, collection.
Spec == InitMain /\ [][Next]_vars

\* ---------------------------------------------------------- SpecClauses
\* store and release_level over MaxBVars unassigned boolean variables, at
\* any solver level.
InitClauses ==
    /\ InitManager
    /\ num_bvars = MaxBVars
    /\ num_pvars = 0
    /\ width = MaxWidth
    /\ eval_false = {}
    /\ clauses = <<>>
    /\ m_clauses = <<>>
    /\ m_watch = EmptyWatch
    /\ m_value = [v \in BVars |-> "l_undef"]
    /\ m_level = [v \in BVars |-> 0]
    /\ m_reason = [v \in BVars |-> NULL]
    /\ m_search = <<>>
    /\ cur_level \in Levels
    /\ conflict = NoConflict

NextClauses ==
    \/ \E lits \in SeqsUpTo(Literals, MaxStoreLen), vp \in BOOLEAN : Store(lits, vp)
    \/ \E lvl \in Levels : ReleaseLevel(lvl)

SpecClauses == InitClauses /\ [][NextClauses]_vars

\* Filing and release alone: store(clause) without the eager pass, at any
\* base level, interleaved with release_level.
NextFiling ==
    \/ \E lits \in SeqsUpTo(Literals, MaxStoreLen) : Store(lits, FALSE)
    \/ \E lvl \in Levels : ReleaseLevel(lvl)

SpecFiling == InitClauses /\ [][NextFiling]_vars


\* C2: after release_level(L), a clause of size > 1 that was stored in a
\* bucket of level >= L, and so has been released, is in no literal's watch
\* list.
C2_ReleasedUnwatched ==
    \A cid \in 1 .. Len(clauses) :
        (~clauses[cid].live /\ Len(clauses[cid].lits) > 1) =>
            \A l \in DOMAIN m_watch : cid \notin Range(m_watch[l])

\* C9: lookup(v) = c exactly when c's variable is v, no two constraints
\* share a variable, and no assertion of assign_bv2c or erase_bv2c fails.
C9_BridgeBijective ==
    /\ ~assert_failed
    /\ Len(m_bv2constraint) <= num_bvars
    /\ \A c \in 1 .. Len(cons) :
          /\ cons[c].bvar # null_bool_var => cons[c].bvar \in 0 .. (num_bvars - 1)
          /\ \A v \in 0 .. (num_bvars - 1) : (lookup(Mgr, v) = c) <=> (cons[c].bvar = v)
    /\ \A c1, c2 \in 1 .. Len(cons) :
          (c1 # c2 /\ cons[c1].bvar = cons[c2].bvar) => cons[c1].bvar = null_bool_var

\* The first constraint lost its variable and got a new one, the second was
\* collected: the bridge holds the first at variable 2 and nothing else.
C9_Witness ==
    /\ Len(cons) >= 2
    /\ cons[1].live /\ cons[1].bvar = 2
    /\ ~cons[2].live
    /\ m_bv2constraint = <<NULL, NULL, 1>>

\* --------------------------------------------------------------- SpecGc
\* release_level and gc on every arrangement of up to MaxCons stored
\* constraints: each may be external, may have lost its variable, may have
\* its variable decided on the trail, may occur in the one stored clause.
EmptyMgr ==
    [cons |-> <<>>, m_constraints |-> <<>>, m_dedup |-> {}, m_bv2constraint |-> <<>>,
     num_bvars |-> 0, clauses |-> <<>>, m_clauses |-> <<>>,
     B |-> [value |-> <<>>, level |-> <<>>, reason |-> <<>>, search |-> <<>>,
            conflict |-> NoConflict, watch |-> <<>>],
     quot_rem_expr |-> {}, op_constraint_expr |-> {}, events |-> <<>>,
     num_pvars |-> MaxCons, added |-> <<>>, bad |-> FALSE]

RECURSIVE arrange_cons(_, _, _)
arrange_cons(M, i, n) ==
    IF i > n THEN M
    ELSE arrange_cons(dedup_miss(M, <<"ule", <<"var", i - 1>>, <<"val", 0>>>>).M, i + 1, n)

RECURSIVE arrange_flags(_, _, _, _, _)
arrange_flags(M, i, n, E, T) ==
    IF i > n THEN M
    ELSE LET M1 == IF i \in E THEN [M EXCEPT !.cons[i].ext = TRUE] ELSE M
             M2 == IF i \in T
                   THEN [M1 EXCEPT !.B = assign_decide(@, mk_lit(M.cons[i].bvar, FALSE), 0)]
                   ELSE M1
         IN  arrange_flags(M2, i + 1, n, E, T)

RECURSIVE lits_of(_, _, _, _)
lits_of(M, i, n, C) ==
    IF i > n THEN <<>>
    ELSE (IF i \in C THEN <<mk_lit(M.cons[i].bvar, FALSE)>> ELSE <<>>) \o lits_of(M, i + 1, n, C)

arrange_clause(M, n, C) ==
    IF C = {} THEN M
    ELSE store_clause([M EXCEPT !.clauses = <<[lits |-> lits_of(M, 1, n, C), live |-> TRUE]>>],
                      1, FALSE, {}, 0)

RECURSIVE arrange_unlinked(_, _, _, _)
arrange_unlinked(M, i, n, U) ==
    IF i > n THEN M
    ELSE arrange_unlinked(IF i \in U THEN erase_bvar(M, i) ELSE M, i + 1, n, U)

Arrangement(n, E, T, C, U) ==
    arrange_unlinked(
        arrange_clause(arrange_flags(arrange_cons(EmptyMgr, 1, n), 1, n, E, T), n, C),
        1, n, U)

InitGc ==
    /\ \E n \in 0 .. MaxCons :
          \E E \in SUBSET (1 .. n), T \in SUBSET (1 .. n),
             C \in SUBSET (1 .. n), U \in SUBSET (1 .. n) :
              \E M \in {Arrangement(n, E, T, C, U)} :
                  /\ cons = M.cons
                  /\ m_constraints = M.m_constraints
                  /\ m_dedup = M.m_dedup
                  /\ m_bv2constraint = M.m_bv2constraint
                  /\ num_bvars = M.num_bvars
                  /\ clauses = M.clauses
                  /\ m_clauses = M.m_clauses
                  /\ m_watch = M.B.watch
                  /\ m_value = M.B.value
                  /\ m_level = M.B.level
                  /\ m_reason = M.B.reason
                  /\ m_search = M.B.search
                  /\ conflict = M.B.conflict
                  /\ assert_failed = M.bad
    /\ quot_rem_expr = {}
    /\ op_constraint_expr = {}
    /\ events = <<>>
    /\ num_pvars = MaxCons
    /\ added = <<>>
    /\ first_ret = {}
    /\ eval_false = {}
    /\ cur_level = 0
    /\ width = MaxWidth
    /\ call = <<"init">>
    /\ ret = <<>>

NextGc ==
    \/ call = <<"init">> /\ \E lvl \in Levels : ReleaseLevel(lvl)
    \/ call # <<"gc">> /\ Gc

SpecGc == InitGc /\ [][NextGc]_vars

C8_Used ==
    {lit_var(l) : l \in UNION {Range(clauses[cid].lits) :
                                 cid \in UNION {Range(m_clauses[k]) : k \in DOMAIN m_clauses}}}
    \cup {lit_var(l) : l \in Range(m_search)}
C8_Keep ==
    {c \in Range(m_constraints) :
        cons[c].ext \/ (cons[c].bvar # null_bool_var /\ cons[c].bvar \in C8_Used)}

\* C8: after gc_constraints the stored constraints are exactly those stored
\* before that are external or whose variable occurs in a retained clause
\* or on the trail; a removed constraint has its link cleared on both
\* sides; a retained one keeps its link; none is skipped.
C8_GcPostcondition ==
    [][(call # <<"gc">> /\ call' = <<"gc">>) =>
        /\ Range(m_constraints') = C8_Keep
        /\ Len(m_constraints') = Cardinality(C8_Keep)
        /\ \A c \in Range(m_constraints) \ C8_Keep :
              /\ cons'[c].bvar = null_bool_var
              /\ ~cons'[c].live
              /\ cons[c].bvar # null_bool_var => m_bv2constraint'[cons[c].bvar + 1] = NULL
        /\ \A c \in C8_Keep :
              /\ cons'[c] = cons[c]
              /\ cons[c].bvar # null_bool_var =>
                    m_bv2constraint'[cons[c].bvar + 1] = m_bv2constraint[cons[c].bvar + 1]
        /\ ~assert_failed'
        /\ UNCHANGED <<clauseVars, boolVars, num_bvars, m_dedup>>]_vars

\* Of three stored constraints gc removed the first and the last, which the
\* removal of the first had swapped to the front, and kept the second.
C8_Witness ==
    /\ call = <<"gc">>
    /\ Len(cons) = 3
    /\ ~cons[1].live /\ cons[2].live /\ ~cons[3].live
    /\ m_constraints = <<2>>
    /\ m_bv2constraint = <<NULL, 2, NULL>>

C10_RetainedVars(L) ==
    {lit_var(l) : l \in UNION {Range(clauses[cid].lits) :
                                 cid \in UNION {Range(m_clauses[k]) :
                                                  k \in {j \in DOMAIN m_clauses : j - 1 < L}}}}
    \cup {lit_var(l) : l \in Range(m_search)}

\* C10: gc right after release_level(L) removes from storage every
\* constraint that is not external and whose variable occurs in no clause
\* of a bucket below L and in no assignment of the trail, and lookup of its
\* former variable is none.
C10_ReleaseThenCollect ==
    [][(call[1] = "release_level" /\ call' = <<"gc">>) =>
        \A c \in Range(m_constraints) :
            (/\ ~cons[c].ext
             /\ cons[c].bvar # null_bool_var
             /\ cons[c].bvar \notin C10_RetainedVars(call[2])) =>
                /\ c \notin Range(m_constraints')
                /\ m_bv2constraint'[cons[c].bvar + 1] = NULL]_vars

\* The clause of two literals was released and gc then removed both
\* constraints it had kept alive.
C10_Witness ==
    /\ call = <<"gc">>
    /\ Len(clauses) = 1 /\ ~clauses[1].live /\ Len(clauses[1].lits) = 2
    /\ m_clauses = <<<<>>>>
    /\ Len(cons) = 2 /\ ~cons[1].live /\ ~cons[2].live
    /\ m_constraints = <<>>
    /\ m_bv2constraint = <<NULL, NULL>>


\* ----------------------------------------------------------- SpecSigned
\* sle without the shift: the unsigned comparison of the operands.
sle_unshifted(M, a, b, K) == ule(M, a, b)

\* Lines 351-354: shift = 2^(K-1) is added to both sides of an unsigned <=.
sle(M, a, b, K) ==
    ule(M, pdd_add(a, mk_val(Pow2(K - 1), K), K), pdd_add(b, mk_val(Pow2(K - 1), K), K))

\* Lines 356-359.
slt(M, a, b, K) ==
    ult(M, pdd_add(a, mk_val(Pow2(K - 1), K), K), pdd_add(b, mk_val(Pow2(K - 1), K), K))

InitSigned ==
    /\ InitManager
    /\ InitSolver
    /\ num_pvars = 0
    /\ width \in 1 .. MaxWidth

Sle(a, b) ==
    /\ \E r \in {sle(Mgr, a, b, width)} :
           /\ Commit(r.M)
           /\ ret' = <<r.c, r.pos>>
    /\ call' = <<"sle", a, b>>
    /\ UNCHANGED <<solverVars, first_ret>>

Slt(a, b) ==
    /\ \E r \in {slt(Mgr, a, b, width)} :
           /\ Commit(r.M)
           /\ ret' = <<r.c, r.pos>>
    /\ call' = <<"slt", a, b>>
    /\ UNCHANGED <<solverVars, first_ret>>

NextSigned ==
    \E a, b \in {<<"val", n>> : n \in 0 .. max_value(width)} : Sle(a, b) \/ Slt(a, b)

SpecSigned == InitSigned /\ [][NextSigned]_vars

\* The two's-complement reading of n at width K.
C11_Signed(n, K) == IF n >= Pow2(K - 1) THEN n - Pow2(K) ELSE n
\* Whether the returned signed constraint, an unsigned <= of two values
\* with a polarity, is true.
C11_Holds == (ret[2] <=> (cons[ret[1]].key[2][2] <= cons[ret[1]].key[3][2]))

\* C11: on concrete a, b of width K the constraint sle(a, b) returns is
\* true exactly when (a + 2^(K-1)) mod 2^K <= (b + 2^(K-1)) mod 2^K, which
\* is exactly when a <= b in signed order; the one slt(a, b) returns is
\* true exactly when not (b + 2^(K-1)) mod 2^K <= (a + 2^(K-1)) mod 2^K,
\* which is exactly when a < b in signed order.
C11_SignedComparison ==
    call[1] \in {"sle", "slt"} =>
        LET a == call[2][2]
            b == call[3][2]
            sa == (a + Pow2(width - 1)) % Pow2(width)
            sb == (b + Pow2(width - 1)) % Pow2(width)
        IN  /\ cons[ret[1]].key[1] = "ule"
            /\ is_val(cons[ret[1]].key[2]) /\ is_val(cons[ret[1]].key[3])
            /\ call[1] = "sle" =>
                  /\ C11_Holds <=> (sa <= sb)
                  /\ C11_Holds <=> (C11_Signed(a, width) <= C11_Signed(b, width))
            /\ call[1] = "slt" =>
                  /\ C11_Holds <=> ~(sb <= sa)
                  /\ C11_Holds <=> (C11_Signed(a, width) < C11_Signed(b, width))

\* At width 4, sle(8, 7), that is -8 <= 7, returned a true constraint.
C11_Witness ==
    /\ width = 4
    /\ call = <<"sle", <<"val", 8>>, <<"val", 7>>>>
    /\ C11_Holds


\* ------------------------------------------------------------- SpecBits
\* Line 331: an op_constraint on (p, q, r), through dedup, positive.
mk_op_constraint(M, op, p, q, r) ==
    LET d == dedup(M, <<"op", op, p, q, r>>) IN [M |-> d.M, c |-> d.c, pos |-> TRUE]

op_term_memo(M, op, p, q) == {e \in M.op_constraint_expr : e[1] = op /\ e[2] = p /\ e[3] = q}

\* Lines 438-439: the memo has the key; the recorded variable is returned.
mk_op_term_hit(M, e) == [M |-> M, p |-> mk_var(e[4])]

\* Lines 441-445: a fresh variable r, the memo entry, the defining clause.
mk_op_term_miss(M, op, p, q, ef, lvl) ==
    [M |-> add_unit(mk_op_constraint([M EXCEPT !.num_pvars = @ + 1,
                                               !.op_constraint_expr =
                                                   @ \cup {<<op, p, q, M.num_pvars>>}],
                                     op, p, q, mk_var(M.num_pvars)),
                    FALSE, ef, lvl),
     p |-> mk_var(M.num_pvars)]

mk_op_term(M, op, p, q, ef, lvl) ==
    IF op_term_memo(M, op, p, q) # {}
    THEN mk_op_term_hit(M, CHOOSE e \in op_term_memo(M, op, p, q) : TRUE)
    ELSE mk_op_term_miss(M, op, p, q, ef, lvl)

bnot(p, K) == pdd_sub(pdd_neg(p, K), mk_val(1, K), K)

band(M, p, q, K, ef, lvl) == mk_op_term(M, "and_op", p, q, ef, lvl)

\* The polynomial of bor for the term t that band returned.
bor_of(t, p, q, K) == [M |-> t.M, p |-> pdd_sub(pdd_add(p, q, K), t.p, K)]
bor(M, p, q, K, ef, lvl) == bor_of(band(M, p, q, K, ef, lvl), p, q, K)

\* bxor without the factor 2, which is bor.
bxor_of_single(t, p, q, K) == [M |-> t.M, p |-> pdd_sub(pdd_add(p, q, K), t.p, K)]

bxor_of(t, p, q, K) ==
    [M |-> t.M, p |-> pdd_sub(pdd_add(p, q, K), pdd_mul(mk_val(2, K), t.p, K), K)]
bxor(M, p, q, K, ef, lvl) == bxor_of(band(M, p, q, K, ef, lvl), p, q, K)

\* bnot applied to the term t that a builder returned.
bnot_of(t, K) == [M |-> t.M, p |-> bnot(t.p, K)]
bnand(M, p, q, K, ef, lvl) == bnot_of(band(M, p, q, K, ef, lvl), K)
bnor(M, p, q, K, ef, lvl) == bnot_of(bor(M, p, q, K, ef, lvl), K)

\* The value of polynomial p modulo 2^K where variable v has value env[v].
RECURSIVE pdd_eval(_, _, _)
pdd_eval(p, env, K) ==
    IF p[1] = "val" THEN p[2] % Pow2(K)
    ELSE IF p[1] = "var" THEN env[p[2]]
    ELSE IF p[1] = "neg" THEN (Pow2(K) - pdd_eval(p[2], env, K)) % Pow2(K)
    ELSE IF p[1] = "add" THEN (pdd_eval(p[2], env, K) + pdd_eval(p[3], env, K)) % Pow2(K)
    ELSE (pdd_eval(p[2], env, K) * pdd_eval(p[3], env, K)) % Pow2(K)

InitBits == InitSigned

\* One call of a term builder on concrete operands.
BitOp(name, a, b) ==
    /\ call = <<"init">>
    /\ \E t \in {IF name = "bor" THEN bor(Mgr, a, b, width, eval_false, cur_level)
                 ELSE IF name = "bxor" THEN bxor(Mgr, a, b, width, eval_false, cur_level)
                 ELSE IF name = "bnand" THEN bnand(Mgr, a, b, width, eval_false, cur_level)
                 ELSE bnor(Mgr, a, b, width, eval_false, cur_level)} :
           /\ Commit(t.M)
           /\ ret' = <<t.p>>
    /\ call' = <<name, a, b>>
    /\ UNCHANGED <<solverVars, first_ret>>

Bnot(a) ==
    /\ call = <<"init">>
    /\ ret' = <<bnot(a, width)>>
    /\ call' = <<"bnot", a>>
    /\ UNCHANGED <<consVars, clauseVars, boolVars, termVars, solverVars, assert_failed,
                   first_ret>>

NextBits ==
    \E a, b \in {<<"val", n>> : n \in 0 .. max_value(width)} :
        \/ \E name \in {"bor", "bxor", "bnand", "bnor"} : BitOp(name, a, b)
        \/ Bnot(a)

SpecBits == InitBits /\ [][NextBits]_vars

\* Bitwise AND, OR and XOR of a and b on K bits, bit by bit.
RECURSIVE C12_And(_, _, _)
C12_And(a, b, K) ==
    IF K = 0 THEN 0 ELSE (a % 2) * (b % 2) + 2 * C12_And(a \div 2, b \div 2, K - 1)
RECURSIVE C12_Or(_, _, _)
C12_Or(a, b, K) ==
    IF K = 0 THEN 0
    ELSE (IF a % 2 = 1 \/ b % 2 = 1 THEN 1 ELSE 0) + 2 * C12_Or(a \div 2, b \div 2, K - 1)
RECURSIVE C12_Xor(_, _, _)
C12_Xor(a, b, K) ==
    IF K = 0 THEN 0
    ELSE (IF a % 2 # b % 2 THEN 1 ELSE 0) + 2 * C12_Xor(a \div 2, b \div 2, K - 1)
RECURSIVE C12_Not(_, _)
C12_Not(a, K) == IF K = 0 THEN 0 ELSE (1 - (a % 2)) + 2 * C12_Not(a \div 2, K - 1)

\* Every variable that stands for and(p, q) of concrete p, q has the value
\* of the bitwise AND.
C12_Env ==
    [v \in {e[4] : e \in op_constraint_expr} |->
        LET e == CHOOSE e \in op_constraint_expr : e[4] = v
        IN  C12_And(e[2][2], e[3][2], width)]

\* C12: on concrete a, b of width K, with the variable of and(a, b) valued
\* as the bitwise AND, the polynomial of bor evaluates to a OR b, of bxor
\* to a XOR b, of bnot to the complement of a, of bnand and bnor to the
\* complements of a AND b and a OR b.
C12_BitwiseIdentities ==
    call[1] \in {"bor", "bxor", "bnot", "bnand", "bnor"} =>
        LET a == call[2][2]
            v == pdd_eval(ret[1], C12_Env, width)
        IN  /\ call[1] = "bnot" => v = C12_Not(a, width)
            /\ call[1] = "bor" => v = C12_Or(a, call[3][2], width)
            /\ call[1] = "bxor" => v = C12_Xor(a, call[3][2], width)
            /\ call[1] = "bnand" => v = C12_Not(C12_And(a, call[3][2], width), width)
            /\ call[1] = "bnor" => v = C12_Not(C12_Or(a, call[3][2], width), width)

\* At width 4, bxor(12, 10) returned a polynomial over the variable of
\* and(12, 10) that evaluates to 6.
C12_Witness ==
    /\ width = 4
    /\ call = <<"bxor", <<"val", 12>>, <<"val", 10>>>>
    /\ op_constraint_expr = {<<"and_op", <<"val", 12>>, <<"val", 10>>, 0>>}
    /\ pdd_eval(ret[1], C12_Env, width) = 6


\* ------------------------------------------------------------ SpecStore
\* store(cl, value_propagate) of one created clause under every boolean
\* assignment and every theory evaluation of its literals.  A constraint
\* and its negation are never both false in the theory.
InitStore ==
    /\ InitManager
    /\ num_bvars = MaxBVars
    /\ num_pvars = 0
    /\ width = 1
    /\ m_clauses = <<>>
    /\ m_watch = EmptyWatch
    /\ conflict = NoConflict
    /\ m_reason = [v \in BVars |-> NULL]
    /\ m_value \in [BVars -> {"l_undef", "l_true", "l_false"}]
    /\ m_level \in [BVars -> Levels]
    /\ \A v \in BVars : m_value[v] = "l_undef" => m_level[v] = 0
    /\ cur_level \in Levels
    /\ \A v \in BVars : m_level[v] <= cur_level
    /\ m_search = trail_of(m_value, m_level, {v \in BVars : m_value[v] # "l_undef"})
    /\ \E cl \in SeqsUpTo(Literals, MaxStoreLen) :
          /\ clauses = <<[lits |-> cl, live |-> TRUE]>>
          /\ eval_false \in {ef \in SUBSET Range(cl) : \A l \in ef : neg_lit(l) \notin ef}

\* store(cl, value_propagate) on the clause, once.
StoreCreated(value_propagate) ==
    /\ call = <<"init">>
    /\ Commit(store_clause(Mgr, 1, value_propagate, eval_false, cur_level))
    /\ call' = <<"store", value_propagate>>
    /\ ret' = <<>>
    /\ UNCHANGED <<solverVars, first_ret>>

NextStore == \E vp \in BOOLEAN : StoreCreated(vp)

SpecStore == InitStore /\ [][NextStore]_vars

\* The clause of SpecStore, its unassigned positions, and the literal the
\* first loop of the eager branch propagates (or null_literal).
StoreLits == clauses[1].lits
StoreUndef == {i \in DOMAIN StoreLits : m_value[lit_var(StoreLits[i])] = "l_undef"}
StoreHasTrue == \E i \in DOMAIN StoreLits : is_true(BoolState, StoreLits[i])
StoreUnit ==
    IF ~StoreHasTrue /\ Cardinality(StoreUndef) = 1
    THEN StoreLits[CHOOSE i \in StoreUndef : TRUE]
    ELSE null_literal
EagerStep == call = <<"init">> /\ call' = <<"store", TRUE>>

\* C13 as stated: when the eager install propagates the one unassigned
\* literal of a clause with no true literal, and the theory evaluates that
\* literal as false, the conflict reported is a clause conflict.
C13_ClauseConflict ==
    [][(EagerStep /\ StoreUnit # null_literal /\ StoreUnit \in eval_false) =>
          conflict' = <<"clause", 1>>]_vars

\* C13 amended: in that case the conflict reported is a constraint conflict
\* on the propagated literal, which is true with the clause as its reason,
\* and no clause conflict is reported.
C13_ConstraintConflict ==
    [][(EagerStep /\ StoreUnit # null_literal /\ StoreUnit \in eval_false) =>
          /\ conflict' = <<"constraint", StoreUnit>>
          /\ m_value'[lit_var(StoreUnit)] = (IF lit_sign(StoreUnit) = 1 THEN "l_false" ELSE "l_true")
          /\ m_reason'[lit_var(StoreUnit)] = 1]_vars

\* The clause [~x1, x0] with ~x1 false, x0 unassigned and false in the
\* theory was installed eagerly: x0 was propagated and the conflict is on
\* its constraint.
C13_Witness ==
    /\ call = <<"store", TRUE>>
    /\ clauses[1].lits = <<3, 0>>
    /\ eval_false = {0}
    /\ m_value = (0 :> "l_true" @@ 1 :> "l_true")
    /\ m_reason[0] = 1
    /\ conflict = <<"constraint", 0>>

\* How often x occurs in seq.
Occurrences(seq, x) == Cardinality({i \in DOMAIN seq : seq[i] = x})

\* C14: every clause of size > 1 held in a level bucket is in the watch
\* lists of exactly its two front literals, once for each front position.
C14_StoredWatched ==
    \A k \in DOMAIN m_clauses : \A cid \in Range(m_clauses[k]) :
        Len(clauses[cid].lits) > 1 =>
            \A l \in DOMAIN m_watch :
                Occurrences(m_watch[l], cid) =
                    Occurrences(SubSeq(clauses[cid].lits, 1, 2), l)

\* Positions of the clause whose literal the theory evaluates as false and
\* that is true when the second loop reaches it.
C17_Bad ==
    {i \in DOMAIN StoreLits :
        /\ StoreLits[i] \in eval_false
        /\ is_true(BoolState, StoreLits[i]) \/ StoreLits[i] = StoreUnit}
C17_First == CHOOSE i \in C17_Bad : \A j \in C17_Bad : i <= j
C17_IsFalseAfter(l) ==
    m_value'[lit_var(l)] = (IF lit_sign(l) = 1 THEN "l_true" ELSE "l_false")

\* C17: in watch(cl, true) the first literal in clause order that the
\* theory evaluates as false and that is true gives a constraint conflict
\* on it and the return: the literals before it that the theory evaluates
\* as false are false, no variable of a later literal alone is assigned,
\* no watch is registered and the clause is not reordered.  With no such
\* literal there is no constraint conflict and every literal the theory
\* evaluates as false is boolean-false on return.
C17_EagerTheoryPass ==
    [][EagerStep =>
        IF C17_Bad # {}
        THEN /\ conflict' = <<"constraint", StoreLits[C17_First]>>
             /\ m_watch' = m_watch
             /\ clauses'[1].lits = StoreLits
             /\ \A k \in 1 .. (C17_First - 1) :
                   StoreLits[k] \in eval_false => C17_IsFalseAfter(StoreLits[k])
             /\ \A v \in BVars :
                   (/\ m_value[v] = "l_undef"
                    /\ (StoreUnit = null_literal \/ lit_var(StoreUnit) # v)
                    /\ \A k \in 1 .. (C17_First - 1) : lit_var(StoreLits[k]) # v)
                   => m_value'[v] = "l_undef"
        ELSE /\ conflict'[1] # "constraint"
             /\ \A i \in DOMAIN StoreLits :
                   StoreLits[i] \in eval_false => C17_IsFalseAfter(StoreLits[i])]_vars

\* The clause [x0, x1] with x0 unassigned, x1 true, both false in the
\* theory: x0 was assigned false by evaluation, then x1 gave the conflict;
\* nothing is watched.
C17_Witness ==
    /\ call = <<"store", TRUE>>
    /\ clauses[1].lits = <<0, 2>>
    /\ eval_false = {0, 2}
    /\ m_value = (0 :> "l_false" @@ 1 :> "l_true")
    /\ conflict = <<"constraint", 2>>
    /\ m_watch = EmptyWatch


\* C16: in every state reached by store and release_level calls at any
\* solver level, there is at most the bucket of level 0 and every clause
\* that is stored and not released is in it; release_level(L) with L >= 1
\* changes no clause, bucket or watch list and unwatches nothing, and
\* release_level(0) empties the bucket.
C16_FiledAtLevelZero ==
    /\ [](/\ Len(m_clauses) <= 1
          /\ \A cid \in DOMAIN clauses :
                clauses[cid].live => Occurrences(m_clauses[1], cid) = 1)
    /\ [][call'[1] = "release_level" =>
            IF call'[2] >= 1
            THEN UNCHANGED <<clauses, m_clauses, m_watch>> /\ events' = <<>>
            ELSE /\ \A k \in DOMAIN m_clauses' : m_clauses'[k] = <<>>
                 /\ \A cid \in DOMAIN clauses : ~clauses'[cid].live]_vars

\* At solver level 1 a clause of two literals was stored and
\* release_level(1) was called: the clause is still in bucket 0.
C16_Witness ==
    /\ cur_level = 1
    /\ call = <<"release_level", 1>>
    /\ m_clauses = <<<<1>>>>
    /\ Len(clauses[1].lits) = 2 /\ clauses[1].live
    /\ events = <<>>


\* -------------------------------------------------------- SpecNormalize
\* normalize_watch alone, on one clause under every boolean assignment.
NormalizeWatch ==
    /\ call = <<"init">>
    /\ Len(clauses[1].lits) > 1
    /\ clauses' = [clauses EXCEPT ![1].lits = normalize_watch(BoolState, @)]
    /\ call' = <<"normalize_watch", clauses[1].lits>>
    /\ ret' = <<>>
    /\ UNCHANGED <<consVars, m_clauses, boolVars, termVars, solverVars, assert_failed,
                   first_ret>>

NextNormalize == NormalizeWatch

SpecNormalize == InitWatch /\ [][NextNormalize]_vars

\* C18: normalize_watch leaves the clause with the same size and the same
\* number of occurrences of every literal, and leaves the assignment, the
\* watch lists and the storage as they were.
C18_OnlyPermutes ==
    [][call'[1] = "normalize_watch" =>
          /\ Len(clauses'[1].lits) = Len(clauses[1].lits)
          /\ \A l \in Literals :
                Occurrences(clauses'[1].lits, l) = Occurrences(clauses[1].lits, l)
          /\ UNCHANGED <<boolVars, consVars, m_clauses>>]_vars

\* The clause [x0, x1, ~x0] with x0 false and x1 unassigned went through
\* the first rotation and is now [~x0, x1, x0].
C18_Witness ==
    /\ call = <<"normalize_watch", <<0, 2, 1>>>>
    /\ clauses[1].lits = <<1, 2, 0>>
    /\ m_value = (0 :> "l_false" @@ 1 :> "l_undef")


\* ---------------------------------------------------------- SpecDedupGc
\* dedup, through ule and umul_ovfl, interleaved with gc.
NextDedupGc ==
    \/ \E a, b \in MainOperands :
          \/ UleHit(a, b, FALSE)
          \/ UleMiss(a, b, FALSE)
          \/ UmulOvflHit(a, b, FALSE)
          \/ UmulOvflMiss(a, b, FALSE)
    \/ Gc

SpecDedupGc == InitMain /\ [][NextDedupGc]_vars

\* C19: every constraint registered in the dedup table is in constraint
\* storage, allocated, and has a boolean variable; and a dedup call
\* returns such a constraint.
C19_DedupConsistent ==
    /\ \A c \in m_dedup :
          /\ c \in Range(m_constraints)
          /\ cons[c].live
          /\ cons[c].bvar # null_bool_var
    /\ call[1] \in {"ule", "umul_ovfl"} =>
          /\ ret[1] \in Range(m_constraints)
          /\ cons[ret[1]].bvar # null_bool_var


\* ------------------------------------------------------------- SpecMemo
\* The memoizing term builders quot_rem and mk_op_term on symbolic
\* operands, interleaved with release_level.
MkOpTermHit(op, p, q) ==
    /\ op_term_memo(Mgr, op, p, q) # {}
    /\ \E e \in op_term_memo(Mgr, op, p, q) : ret' = <<mk_op_term_hit(Mgr, e).p>>
    /\ call' = <<"mk_op_term", op, p, q>>
    /\ UNCHANGED <<consVars, clauseVars, boolVars, termVars, solverVars, assert_failed,
                   first_ret>>

MkOpTermMiss(op, p, q) ==
    /\ op_term_memo(Mgr, op, p, q) = {}
    /\ \E t \in {mk_op_term_miss(Mgr, op, p, q, eval_false, cur_level)} :
           /\ Commit(t.M)
           /\ ret' = <<t.p>>
    /\ call' = <<"mk_op_term", op, p, q>>
    /\ UNCHANGED <<solverVars, first_ret>>

MemoRoom == Cardinality(quot_rem_expr) + Cardinality(op_constraint_expr) < MaxPairs

NextMemo ==
    \/ \E a, b \in MainOperands :
          \/ QuotRemHit(a, b)
          \/ MemoRoom /\ QuotRemMiss(a, b)
          \/ MkOpTermHit("and_op", a, b)
          \/ MemoRoom /\ MkOpTermMiss("and_op", a, b)
    \/ \E lvl \in Levels : ReleaseLevel(lvl)

SpecMemo == InitMain /\ [][NextMemo]_vars

\* The positions of the events of one kind, and the clauses of the buckets
\* of level >= L.
C15_Resets(ev) == {i \in DOMAIN ev : ev[i][1] = "reset"}
C15_Released(L) ==
    UNION {Range(m_clauses[k]) : k \in {j \in DOMAIN m_clauses : j - 1 >= L}}

C20_MemoKeepsDefinitions ==
    /\ Len(clauses) = 5 * Cardinality(quot_rem_expr) + Cardinality(op_constraint_expr)
    /\ \A cid \in DOMAIN clauses :
          /\ clauses[cid].live
          /\ \E k \in DOMAIN m_clauses : cid \in Range(m_clauses[k])

====
